---- MODULE Spec2Model ----
(***************************************************************************)
(* A model of minidkvs (pkg/minidkvs/core.go, memory.go): a Database that  *)
(* serialises Get/Set/Delete/ReceiveRemote/Close through one goroutine     *)
(* (dbMessageLoop) over an unbuffered channel, on top of a Storage, and    *)
(* resolves remote deltas against the stored value in handleReceive.       *)
(*                                                                         *)
(* Node identities are modelled by their rank under the lexicographic      *)
(* order of uuid.UUID.String() (a fixed-width lower-case hex form, so the  *)
(* string order is a strict total order on identities): ModifiedBy 1 sorts *)
(* before ModifiedBy 2.                                                    *)
(***************************************************************************)
EXTENDS Integers, Sequences, FiniteSets, TLC

\* ------------------------------------------------------------------ bounds
NumCallers == 2
MaxTime == 1
MaxOps == 3
MaxDataOps == 4
MaxDeltas == 2

\* Go's int is 32 or 64 bits wide; the 32-bit width is modelled.  Signed
\* overflow wraps in Go.
IntMax == 2147483647
IntMin == -IntMax - 1

\* ------------------------------------------------------------------ domains
Keys == {"k1", "k2"}
Contents == {"a", "b"}
NilBytes == ""
Nodes == {1, 2}
Times == 0..MaxTime
Callers == 1..NumCallers
Replicas == {"A", "B"}

\* Storage.Get's nil *Value (memory.go:15-17).
NoValue == [nil |-> TRUE]

\* type Value struct (core.go:26-32).
Value(ver, by, at, del, content) ==
  [Version |-> ver, ModifiedBy |-> by, ModifiedAt |-> at, Deleted |-> del,
   Content |-> content]

\* type Delta struct (core.go:36-39).
Delta(k, v) == [Key |-> k, Value |-> v]

\* The values a remote peer may send: any identity and time; a live value
\* with version 1 or a tombstone with version 2 (a version carries no meaning
\* across nodes).
DeltaValues ==
  {Value(1, by, at, FALSE, "a") : by \in Nodes, at \in Times}
    \cup
  {Value(2, by, at, TRUE, NilBytes) : by \in Nodes, at \in Times}

\* The deltas of the two-replica specification: same-writer, same-second
\* deltas that differ in version and content are among them.
ConvValues ==
  {Value(1, by, at, FALSE, "a") : by \in Nodes, at \in Times}
    \cup
  {Value(2, by, at, FALSE, "b") : by \in Nodes, at \in Times}
ConvDeltas == {Delta(k, v) : k \in Keys, v \in ConvValues}

\* ------------------------------------------------------------------ messages
\* dbMessageType and the new*Message constructors (core.go:159-230).
NoDelta == [nil |-> TRUE]
newReceiveMessage(d) == [msgType |-> "receive", key |-> d.Key, value |-> NilBytes, delta |-> d]
newSetMessage(k, b) == [msgType |-> "set", key |-> k, value |-> b, delta |-> NoDelta]
newGetMessage(k) == [msgType |-> "get", key |-> k, value |-> NilBytes, delta |-> NoDelta]
newDeleteMessage(k) == [msgType |-> "delete", key |-> k, value |-> NilBytes, delta |-> NoDelta]
newCloseMessage == [msgType |-> "close", key |-> "", value |-> NilBytes, delta |-> NoDelta]

\* The operations the callers of the concurrent specification issue: every
\* operation on every key, the remote deltas carrying one value of a peer.
PeerValues == {Value(1, 1, 0, FALSE, "b")}
Messages ==
  {newReceiveMessage(Delta(k, v)) : k \in Keys, v \in PeerValues}
    \cup {newSetMessage(k, b) : k \in Keys, b \in Contents}
    \cup {newGetMessage(k) : k \in Keys}
    \cup {newDeleteMessage(k) : k \in Keys}
    \cup {newCloseMessage}

\* The operations of the single-caller specification: every operation on one
\* key, with every remote value.
DataKey == "k1"
DataCallers == {1}
DataMessages ==
  {newReceiveMessage(Delta(DataKey, v)) : v \in DeltaValues}
    \cup {newSetMessage(DataKey, b) : b \in Contents}
    \cup {newGetMessage(DataKey), newDeleteMessage(DataKey), newCloseMessage}

NoMsg == [nil |-> TRUE]
NoCur == [nil |-> TRUE]
NoReply == [nil |-> TRUE]
NoResult == [nil |-> TRUE]

VARIABLES
  nodeID,      \* Database.nodeID, read once from Storage.GetNodeID
  data,        \* MemoryStorage.data: key -> Value, NoValue when absent
  faulty,      \* whether the Storage behind the Database may return errors
  now,         \* time.Now().Unix()
  pc,          \* per caller: "idle", "send" (blocked on msgChan <-), "wait" (blocked on <-reply)
  msg,         \* per caller: the message it is sending or awaiting the reply of
  seqPc,       \* dbMessageLoop: "recv", "handle", "reply"; "done" were the loop to return
  cur,         \* the message dbMessageLoop took from msgChan, its sender and arrival number
  reply,       \* the value dbMessageLoop is sending on the reply channel
  issued,      \* number of operations the callers have started
  arrived,     \* number of messages dbMessageLoop has received from msgChan
  applied,     \* number of messages whose handler has run
  closeSeen,   \* a Close message has been received by dbMessageLoop
  lastOp,      \* per key: the last Set/Delete/ReceiveRemote handled for it
  localVers,   \* per key: the versions the local writes produced
  best,        \* per key: the conflict-resolution winner of the values observed
  calls,       \* the Storage calls of the handler whose reply is being sent
  deltaSet,    \* two-replica specification: the set of deltas in circulation
  replica,     \* two-replica specification: each replica's Storage
  seen         \* two-replica specification: the deltas each replica has received

dbVars == <<nodeID, data, faulty, now, pc, msg, seqPc, cur, reply, issued, arrived,
            applied, closeSeen, lastOp, localVers, best, calls>>
convVars == <<deltaSet, replica, seen>>
vars == <<dbVars, convVars>>

\* ------------------------------------------------------------------ Storage
\* A Get that returns the map's zero Value for a missing key instead of nil.
StorageGetZeroValue(store, key) ==
  IF store[key] = NoValue THEN Value(0, 0, 0, FALSE, NilBytes) ELSE store[key]

\* MemoryStorage.Get (memory.go:13-19): nil when the key is not in the map.
StorageGet(store, key) == store[key]

\* MemoryStorage.Set (memory.go:22-25): replaces the key's value.
StorageSet(store, key, v) == [store EXCEPT ![key] = v]

\* MemoryStorage.Delete (memory.go:28-31): removes the key from the map.
StorageDelete(store, key) == [store EXCEPT ![key] = NoValue]

\* One call of a Storage method and whether it returned without error.
SCall(op, key, ok) == [op |-> op, key |-> key, ok |-> ok]

\* NewMemoryStorage (memory.go:39-51): an empty map.
EmptyStore == [k \in Keys |-> NoValue]

\* The outcomes a Storage call may have: MemoryStorage never fails; another
\* Storage (core.go:10-15) may return an error from Get or from Set.  A
\* failed Set is modelled as writing nothing.
FaultChoices == IF faulty THEN BOOLEAN ELSE {FALSE}

\* ------------------------------------------------------------------ values
\* The version copied from the stored value without the increment.
IncMissing(v) == v

\* value.Version + 1 in Go's int (core.go:82).
Inc(v) == IF v = IntMax THEN IntMin ELSE v + 1

\* A newValue whose version counts from 0 for a key that holds nothing.
newValueFromZero(store, key, bytes, deleted, node, t) ==
  LET value == StorageGet(store, key)
      version == IF value # NoValue THEN Inc(value.Version) ELSE 0
  IN  Value(version, node, t, deleted, bytes)

\* Database.newValue (core.go:74-94), after its Storage.Get succeeded.
newValue(store, key, bytes, deleted, node, t) ==
  LET value == StorageGet(store, key)
      version == IF value # NoValue THEN Inc(value.Version) ELSE 1
  IN  Value(version, node, t, deleted, bytes)

\* A comparison that breaks a modifiedAt tie on the version.
existingIsConflictWinnerByVersion(existing, new) ==
  IF existing.ModifiedAt = new.ModifiedAt
    THEN existing.Version < new.Version
    ELSE existing.ModifiedAt > new.ModifiedAt

\* existingIsConflictWinner (core.go:98-103).
existingIsConflictWinner(existing, new) ==
  IF existing.ModifiedAt = new.ModifiedAt
    THEN existing.ModifiedBy < new.ModifiedBy
    ELSE existing.ModifiedAt > new.ModifiedAt

\* The condition without its nil case: a delta for a key that holds nothing
\* is not stored.
receiveStoresNoNilCase(existing, new) ==
  existing # NoValue /\ existingIsConflictWinner(existing, new)

\* The condition under which handleReceive stores the delta (core.go:110).
receiveStores(existing, new) ==
  existing = NoValue \/ existingIsConflictWinner(existing, new)

\* ------------------------------------------------------------------ handlers
\* Each handler's outcome: the Storage afterwards, what is sent on the reply
\* channel, and the Storage calls it made.  failGet / failSet: the Storage
\* call returns an error.
Outcome(store, result, err, cs) ==
  [store |-> store, Result |-> result, Error |-> err, calls |-> cs]

\* Database.handleReceive (core.go:97-115) as called by receive (core.go:233-235).
handleReceive(store, delta, failGet, failSet) ==
  IF failGet THEN Outcome(store, NoResult, "err", <<SCall("Get", delta.Key, FALSE)>>)
  ELSE LET existing == StorageGet(store, delta.Key) IN
    IF receiveStores(existing, delta.Value)
      THEN IF failSet
             THEN Outcome(store, NoResult, "err",
                          <<SCall("Get", delta.Key, TRUE), SCall("Set", delta.Key, FALSE)>>)
             ELSE Outcome(StorageSet(store, delta.Key, delta.Value), NoResult, "nil",
                          <<SCall("Get", delta.Key, TRUE), SCall("Set", delta.Key, TRUE)>>)
      ELSE Outcome(store, NoResult, "nil", <<SCall("Get", delta.Key, TRUE)>>)

\* Closures that drop the error of newValue's Storage.Get and go on to
\* Storage.Set.
writeNewValueIgnoresReadError(store, key, v, failGet, failSet) ==
  IF failSet
    THEN Outcome(store, NoResult, "err",
                 <<SCall("Get", key, ~failGet), SCall("Set", key, FALSE)>>)
    ELSE Outcome(StorageSet(store, key, v), NoResult, "nil",
                 <<SCall("Get", key, ~failGet), SCall("Set", key, TRUE)>>)

\* What the set and delete closures do with the Value that newValue built
\* (core.go:239-243, 264-268): the error of newValue's Storage.Get is sent
\* back without calling Storage.Set; otherwise the result of Storage.Set is.
writeNewValue(store, key, v, failGet, failSet) ==
  IF failGet THEN Outcome(store, NoResult, "err", <<SCall("Get", key, FALSE)>>)
  ELSE IF failSet
    THEN Outcome(store, NoResult, "err",
                 <<SCall("Get", key, TRUE), SCall("Set", key, FALSE)>>)
    ELSE Outcome(StorageSet(store, key, v), NoResult, "nil",
                 <<SCall("Get", key, TRUE), SCall("Set", key, TRUE)>>)

\* The set closure written as a copy of the delete closure: newValue(key, nil, true).
setHandlerCopyOfDelete(store, key, bytes, node, t, failGet, failSet) ==
  writeNewValue(store, key, newValue(store, key, NilBytes, TRUE, node, t), failGet, failSet)

\* The set closure of dbMessageLoop (core.go:237-244).
setHandler(store, key, bytes, node, t, failGet, failSet) ==
  writeNewValue(store, key, newValue(store, key, bytes, FALSE, node, t), failGet, failSet)

\* A delete closure that removes the key from Storage.
deleteHandlerRawDelete(store, key, node, t, failGet, failSet) ==
  Outcome(StorageDelete(store, key), NoResult, "nil", <<SCall("Delete", key, TRUE)>>)

\* The delete closure of dbMessageLoop (core.go:262-269).
deleteHandler(store, key, node, t, failGet, failSet) ==
  writeNewValue(store, key, newValue(store, key, NilBytes, TRUE, node, t), failGet, failSet)

\* GetResult (core.go:43-46).
GetResult(has, bytes) == [HasValue |-> has, Value |-> bytes]

\* The get closure without the value.Deleted test.
getHandlerIgnoresDeleted(store, key, failGet) ==
  IF failGet THEN Outcome(store, NoResult, "err", <<SCall("Get", key, FALSE)>>)
  ELSE LET value == StorageGet(store, key) IN
    IF value = NoValue
      THEN Outcome(store, GetResult(FALSE, NilBytes), "nil", <<SCall("Get", key, TRUE)>>)
      ELSE Outcome(store, GetResult(TRUE, value.Content), "nil",
                   <<SCall("Get", key, TRUE)>>)

\* The get closure of dbMessageLoop (core.go:246-260).
getHandler(store, key, failGet) ==
  IF failGet THEN Outcome(store, NoResult, "err", <<SCall("Get", key, FALSE)>>)
  ELSE LET value == StorageGet(store, key) IN
    IF value = NoValue \/ value.Deleted
      THEN Outcome(store, GetResult(FALSE, NilBytes), "nil", <<SCall("Get", key, TRUE)>>)
      ELSE Outcome(store, GetResult(TRUE, value.Content), "nil",
                   <<SCall("Get", key, TRUE)>>)

\* A switch whose receive case goes through the set closure, writing the
\* delta's content as a local value.
DispatchReceiveAsSet(store, m, node, t, failGet, failSet) ==
  CASE m.msgType = "receive" ->
         setHandler(store, m.key, m.delta.Value.Content, node, t, failGet, failSet)
    [] m.msgType = "set" -> setHandler(store, m.key, m.value, node, t, failGet, failSet)
    [] m.msgType = "get" -> getHandler(store, m.key, failGet)
    [] m.msgType = "delete" -> deleteHandler(store, m.key, node, t, failGet, failSet)
    [] OTHER -> Outcome(store, NoResult, "nil", <<>>)

\* The switch of dbMessageLoop (core.go:274-285) on one message.
Dispatch(store, m, node, t, failGet, failSet) ==
  CASE m.msgType = "receive" -> handleReceive(store, m.delta, failGet, failSet)
    [] m.msgType = "set" -> setHandler(store, m.key, m.value, node, t, failGet, failSet)
    [] m.msgType = "get" -> getHandler(store, m.key, failGet)
    [] m.msgType = "delete" -> deleteHandler(store, m.key, node, t, failGet, failSet)
    [] OTHER -> Outcome(store, NoResult, "nil", <<>>)

\* Where dbMessageLoop goes after the default case (core.go:283-285): the
\* break leaves the switch, not the for loop, so the loop receives again.
AfterClose == "recv"

\* A loop that takes the next message while its reply is still untaken.
CanReceiveBeforeReplyTaken == seqPc \in {"recv", "reply"}

\* dbMessageLoop receives only at the top of its loop (core.go:271-272).
CanReceive == seqPc = "recv"

\* ------------------------------------------------------------------ history
NoOp == [kind |-> "none", value |-> NilBytes, delta |-> NoValue, prev |-> NoValue,
         stored |-> FALSE, again |-> FALSE]
NoVers == [earlier |-> {}, prev |-> {}, last |-> {}, clean |-> TRUE]

\* The record of the write handled for m.key: what was stored before, what
\* was asked, whether Storage.Set was called and succeeded, and whether this
\* is the delta that the write handled before it for the key also brought.
OpRecord(m, out) ==
  [kind |-> m.msgType, value |-> m.value,
   delta |-> IF m.msgType = "receive" THEN m.delta.Value ELSE NoValue,
   prev |-> data[m.key],
   stored |-> /\ out.Error = "nil"
              /\ \/ m.msgType \in {"set", "delete"}
                 \/ receiveStores(data[m.key], m.delta.Value),
   again |-> /\ m.msgType = "receive"
             /\ lastOp[m.key].kind = "receive"
             /\ lastOp[m.key].delta = m.delta.Value]

\* The versions of the local writes to m.key after this one.
VersRecord(old, m, out) ==
  IF ~OpRecord(m, out).stored THEN old
  ELSE IF m.msgType = "receive" THEN [old EXCEPT !.clean = FALSE]
  ELSE [earlier |-> old.earlier \cup old.last,
        prev |-> IF old.clean THEN old.last ELSE {},
        last |-> IF out.store[m.key] = NoValue THEN {}
                 ELSE {out.store[m.key].Version},
        clean |-> TRUE]

\* v beats w under the documented rule: the later modifiedAt, and on a tie
\* the smaller modifiedBy.
Beats(v, w) ==
  \/ v.ModifiedAt > w.ModifiedAt
  \/ v.ModifiedAt = w.ModifiedAt /\ v.ModifiedBy < w.ModifiedBy

\* The value this handler observed for m.key: the delta's, or the one the
\* local write stored.
Observed(m, out) ==
  IF m.msgType = "receive" THEN m.delta.Value ELSE out.store[m.key]

\* The winner among the values observed for m.key, this one included.
BestRecord(old, m, out) ==
  IF out.Error # "nil" \/ Observed(m, out) = NoValue THEN old
  ELSE IF old = NoValue \/ Beats(Observed(m, out), old) THEN Observed(m, out)
  ELSE old

\* ------------------------------------------------------------------ Database
\* NewMemoryDatabase / NewDatabase (memory.go:55-61, core.go:55-70).
InitDb(f) ==
  /\ nodeID \in Nodes
  /\ data = EmptyStore
  /\ faulty = f
  /\ now = 0
  /\ pc = [c \in Callers |-> "idle"]
  /\ msg = [c \in Callers |-> NoMsg]
  /\ seqPc = "recv"
  /\ cur = NoCur
  /\ reply = NoReply
  /\ issued = 0
  /\ arrived = 0
  /\ applied = 0
  /\ closeSeen = FALSE
  /\ lastOp = [k \in Keys |-> NoOp]
  /\ localVers = [k \in Keys |-> NoVers]
  /\ best = [k \in Keys |-> NoValue]
  /\ calls = <<>>

InitConvIdle ==
  /\ deltaSet = {}
  /\ replica = [r \in Replicas |-> EmptyStore]
  /\ seen = [r \in Replicas |-> {}]

Init == InitDb(FALSE) /\ InitConvIdle

\* The wall clock advances.
Tick ==
  /\ now < MaxTime
  /\ now' = now + 1
  /\ UNCHANGED <<nodeID, data, faulty, pc, msg, seqPc, cur, reply, issued, arrived,
                 applied, closeSeen, lastOp, localVers, best, calls, convVars>>

\* A caller enters Get/Set/Delete/ReceiveRemote/Close (core.go:118-157) and
\* blocks on d.msgChan <- m.
Call(c, m, budget) ==
  /\ pc[c] = "idle"
  /\ issued < budget
  /\ pc' = [pc EXCEPT ![c] = "send"]
  /\ msg' = [msg EXCEPT ![c] = m]
  /\ issued' = issued + 1
  /\ UNCHANGED <<nodeID, data, faulty, now, seqPc, cur, reply, arrived, applied,
                 closeSeen, lastOp, localVers, best, calls, convVars>>

\* A receive that does not wait for the running handler, as when each handler
\* is started on a goroutine of its own.
DequeueWhileBusy(c) ==
  /\ pc[c] = "send"
  /\ cur' = [m |-> msg[c], from |-> c, no |-> arrived + 1]
  /\ arrived' = arrived + 1
  /\ seqPc' = "handle"
  /\ closeSeen' = (closeSeen \/ msg[c].msgType = "close")
  /\ pc' = [pc EXCEPT ![c] = IF msg[c].msgType = "close" THEN "idle" ELSE "wait"]
  /\ msg' = [msg EXCEPT ![c] = IF msg[c].msgType = "close" THEN NoMsg ELSE @]
  /\ UNCHANGED <<nodeID, data, faulty, now, reply, issued, applied, lastOp,
                 localVers, best, calls, convVars>>

\* msg := <-db.msgChan (core.go:272) meets one blocked sender: the channel is
\* unbuffered.  Close returns once its message is taken (core.go:128-130);
\* every other operation goes on to wait for its reply.
Dequeue(c) ==
  /\ CanReceive
  /\ pc[c] = "send"
  /\ cur' = [m |-> msg[c], from |-> c, no |-> arrived + 1]
  /\ arrived' = arrived + 1
  /\ seqPc' = "handle"
  /\ closeSeen' = (closeSeen \/ msg[c].msgType = "close")
  /\ pc' = [pc EXCEPT ![c] = IF msg[c].msgType = "close" THEN "idle" ELSE "wait"]
  /\ msg' = [msg EXCEPT ![c] = IF msg[c].msgType = "close" THEN NoMsg ELSE @]
  /\ UNCHANGED <<nodeID, data, faulty, now, reply, issued, applied, lastOp,
                 localVers, best, calls, convVars>>

\* The switch runs the message's handler (core.go:274-285): its Storage
\* calls, and the value it will send on the reply channel.
Handle ==
  /\ seqPc = "handle"
  /\ \E failGet \in FaultChoices, failSet \in FaultChoices :
       LET m == cur.m
           out == Dispatch(data, m, nodeID, now, failGet, failSet)
       IN  /\ data' = out.store
           /\ applied' = applied + 1
           /\ IF m.msgType = "close"
                THEN /\ seqPc' = AfterClose
                     /\ cur' = NoCur
                     /\ reply' = NoReply
                ELSE /\ seqPc' = "reply"
                     /\ cur' = cur
                     /\ reply' = [Result |-> out.Result, Error |-> out.Error]
           /\ calls' = out.calls
           /\ IF m.msgType \in {"receive", "set", "delete"}
                THEN /\ lastOp' = [lastOp EXCEPT ![m.key] = OpRecord(m, out)]
                     /\ localVers' = [localVers EXCEPT
                                        ![m.key] = VersRecord(@, m, out)]
                     /\ best' = [best EXCEPT ![m.key] = BestRecord(@, m, out)]
                ELSE UNCHANGED <<lastOp, localVers, best>>
  /\ UNCHANGED <<nodeID, faulty, now, pc, msg, issued, arrived, closeSeen, convVars>>

\* A get closure that returns without sending when the key has no live
\* value: the loop goes on, the caller keeps waiting.
ReplyNotSentForMissing ==
  /\ seqPc = "reply"
  /\ pc[cur.from] = "wait"
  /\ LET skip == /\ cur.m.msgType = "get" /\ reply.Error = "nil"
                  /\ ~reply.Result.HasValue
     IN  /\ pc' = IF skip THEN pc ELSE [pc EXCEPT ![cur.from] = "idle"]
         /\ msg' = IF skip THEN msg ELSE [msg EXCEPT ![cur.from] = NoMsg]
  /\ seqPc' = "recv"
  /\ cur' = NoCur
  /\ reply' = NoReply
  /\ calls' = <<>>
  /\ UNCHANGED <<nodeID, data, faulty, now, issued, arrived, applied, closeSeen,
                 lastOp, localVers, best, convVars>>

\* m.errorChan <- ... / m.replyChan <- ... (core.go:234-268) meets the caller
\* blocked on the receive (core.go:122, 138, 147, 156).
Reply ==
  /\ seqPc = "reply"
  /\ pc[cur.from] = "wait"
  /\ pc' = [pc EXCEPT ![cur.from] = "idle"]
  /\ msg' = [msg EXCEPT ![cur.from] = NoMsg]
  /\ seqPc' = "recv"
  /\ cur' = NoCur
  /\ reply' = NoReply
  /\ calls' = <<>>
  /\ UNCHANGED <<nodeID, data, faulty, now, issued, arrived, applied, closeSeen,
                 lastOp, localVers, best, convVars>>

Next ==
  \/ Tick
  \/ \E c \in Callers, m \in Messages : Call(c, m, MaxOps)
  \/ \E c \in Callers : Dequeue(c)
  \/ Handle
  \/ Reply

Spec == Init /\ [][Next]_vars

\* One caller, one key, every remote value.
NextData ==
  \/ Tick
  \/ \E c \in DataCallers, m \in DataMessages : Call(c, m, MaxDataOps)
  \/ \E c \in DataCallers : Dequeue(c)
  \/ Handle
  \/ Reply

SpecData == Init /\ [][NextData]_vars

\* The Database over a Storage whose Get and Set may return errors.
InitFaulty == InitDb(TRUE) /\ InitConvIdle

\* One caller, every operation on every key.
NextFaulty ==
  \/ Tick
  \/ \E c \in DataCallers, m \in Messages : Call(c, m, MaxOps)
  \/ \E c \in DataCallers : Dequeue(c)
  \/ Handle
  \/ Reply

SpecFaulty == InitFaulty /\ [][NextFaulty]_vars

\* A caller that has handed over its message never runs the receive on its
\* reply channel (core.go:122, 138, 147, 156).  The channel was made without
\* a buffer (core.go:119, 136, 144, 153) and has no other receiver.
Abandon(c) ==
  /\ pc[c] = "wait"
  /\ pc' = [pc EXCEPT ![c] = "gone"]
  /\ UNCHANGED <<nodeID, data, faulty, now, msg, seqPc, cur, reply, issued, arrived,
                 applied, closeSeen, lastOp, localVers, best, calls, convVars>>

NextAbandon ==
  \/ Tick
  \/ \E c \in Callers, m \in Messages : Call(c, m, MaxOps)
  \/ \E c \in Callers : Dequeue(c)
  \/ Handle
  \/ Reply
  \/ \E c \in Callers : Abandon(c)

SpecAbandon == Init /\ [][NextAbandon]_vars

\* Callers that never issue Close, under a fair scheduler.  The loop's
\* goroutine runs when it can (the handler's Storage calls return), a caller
\* blocked on its reply channel takes the reply when it is sent, and a caller
\* blocked on msgChan is served in its turn: the runtime queues blocked
\* senders first in, first out.  The clock plays no part in the scheduling
\* and stays at its first reading.
LiveMessages ==
  {newReceiveMessage(Delta(DataKey, v)) : v \in PeerValues}
    \cup {newSetMessage(DataKey, b) : b \in Contents}
    \cup {newGetMessage(DataKey), newDeleteMessage(DataKey)}

NextLive ==
  \/ \E c \in Callers, m \in LiveMessages : Call(c, m, MaxOps)
  \/ \E c \in Callers : Dequeue(c)
  \/ Handle
  \/ Reply

SpecLive ==
  /\ Init /\ [][NextLive]_vars
  /\ WF_vars(Handle) /\ WF_vars(Reply)
  /\ \A c \in Callers : SF_vars(Dequeue(c))

\* ------------------------------------------------------------------ replicas
\* Two Databases over empty Storages that are sent deltas of one set.  Each
\* ReceiveRemote is one turn of that Database's dbMessageLoop.
InitConv ==
  /\ InitDb(FALSE)
  /\ deltaSet \in {S \in SUBSET ConvDeltas : Cardinality(S) \in 1..MaxDeltas}
  /\ replica = [r \in Replicas |-> EmptyStore]
  /\ seen = [r \in Replicas |-> {}]

ReplicaReceive(r, d) ==
  /\ replica' = [replica EXCEPT ![r] = handleReceive(@, d, FALSE, FALSE).store]
  /\ seen' = [seen EXCEPT ![r] = @ \cup {d}]
  /\ UNCHANGED <<dbVars, deltaSet>>

NextConv == \E r \in Replicas, d \in deltaSet : ReplicaReceive(r, d)

SpecConv == InitConv /\ [][NextConv]_vars

\* ------------------------------------------------------------------ claims
IsGetReply == seqPc = "reply" /\ cur.m.msgType = "get"
NoError(res) == [Result |-> res, Error |-> "nil"]

\* C1: once a stored value and a ReceiveRemote delta with a different
\* modifiedAt have both been observed for a key, the stored value is the one
\* with the larger modifiedAt (so a delta older than a local write is rejected).
C1_LargerModifiedAtKept ==
  \A k \in Keys :
    (/\ lastOp[k].kind = "receive"
     /\ lastOp[k].prev # NoValue
     /\ lastOp[k].prev.ModifiedAt # lastOp[k].delta.ModifiedAt)
      => data[k] = IF lastOp[k].prev.ModifiedAt > lastOp[k].delta.ModifiedAt
                     THEN lastOp[k].prev ELSE lastOp[k].delta

\* C2: two replicas that start empty and have each received every delta of
\* the set, in any order and any number of times, store the same values.
C2_Convergence ==
  (\A r \in Replicas : seen[r] = deltaSet) => replica["A"] = replica["B"]

\* C3: after a replica has received two values of one key with the same
\* modifiedAt and different modifiedBy, it stores the one whose modifiedBy is
\* smaller, in either receive order.
C3_SmallerModifiedByKept ==
  \A r \in Replicas : \A d1 \in seen[r], d2 \in seen[r] :
    (/\ d1.Key = d2.Key
     /\ d1.Value.ModifiedAt = d2.Value.ModifiedAt
     /\ d1.Value.ModifiedBy < d2.Value.ModifiedBy
     /\ {d \in seen[r] : d.Key = d1.Key} = {d1, d2})
      => replica[r][d1.Key] = d1.Value

\* C4: a Get of a key whose last write was Set(key, bytes) is answered with no
\* error, hasValue = true and exactly bytes, whatever was stored before the Set
\* and whatever was done to other keys.
C4_SetThenGet ==
  IsGetReply /\ lastOp[cur.m.key].kind = "set"
    => reply = NoError(GetResult(TRUE, lastOp[cur.m.key].value))

\* C4 witness: the Get of a key that was set over a tombstone is being answered.
C4_Witness ==
  /\ IsGetReply
  /\ lastOp[cur.m.key].kind = "set"
  /\ lastOp[cur.m.key].prev # NoValue
  /\ lastOp[cur.m.key].prev.Deleted

\* C5: a Get of a key whose last write was Delete(key) is answered with no
\* error and hasValue = false, whether or not the key held a value before.
C5_DeleteThenGet ==
  IsGetReply /\ lastOp[cur.m.key].kind = "delete"
    => reply = NoError(GetResult(FALSE, NilBytes))

\* C5 witness: the Get of a key that held a live value before its Delete is
\* being answered.
C5_Witness ==
  /\ IsGetReply
  /\ lastOp[cur.m.key].kind = "delete"
  /\ lastOp[cur.m.key].prev # NoValue
  /\ ~lastOp[cur.m.key].prev.Deleted

\* C6: a Get of a key that no Set, Delete or ReceiveRemote has been handled
\* for is answered with no error and hasValue = false.
C6_NeverWrittenGet ==
  IsGetReply /\ lastOp[cur.m.key].kind = "none"
    => reply = NoError(GetResult(FALSE, NilBytes))

\* C6 witness: the Get of a never-written key is being answered while the
\* other key holds a value.
C6_Witness ==
  /\ IsGetReply
  /\ lastOp[cur.m.key].kind = "none"
  /\ \E k \in Keys : data[k] # NoValue /\ ~data[k].Deleted

\* C7: once the Close message has been taken and its case of the switch has
\* run, the loop has terminated (Closed), so no later request is taken.
C7_CloseTerminatesLoop ==
  (closeSeen /\ ~(seqPc = "handle" /\ cur.m.msgType = "close")) => seqPc = "done"

\* C8: the handlers run one per arrival, in arrival order: the handler of the
\* n-th message taken from msgChan runs when exactly the n-1 earlier ones have
\* run, the next message is taken only after it, and a Get is answered with
\* the Storage content those arrivals left.
C8_ArrivalOrder ==
  /\ applied <= arrived /\ arrived <= applied + 1
  /\ seqPc = "recv" => applied = arrived
  /\ seqPc = "handle" => cur.no = arrived /\ applied = arrived - 1
  /\ seqPc = "reply" => cur.no = arrived /\ applied = arrived
  /\ IsGetReply => reply = NoError(getHandler(data, cur.m.key, FALSE).Result)

\* C8 witness: the second arrival, a Get by caller 2, is being answered after
\* caller 1's write to the other key, while caller 1 is blocked sending its
\* next message.
C8_Witness ==
  /\ IsGetReply
  /\ cur.no = 2
  /\ cur.from = 2
  /\ pc[1] = "send"
  /\ \E k \in Keys : k # cur.m.key /\ lastOp[k].kind # "none"

\* C9: at most one request is in progress: the callers whose message has been
\* taken and whose reply has not been are at most one, and it is the sender of
\* the message the loop is handling.
C9_OneInProgress ==
  /\ Cardinality({c \in Callers : pc[c] = "wait"}) <= 1
  /\ \A c \in Callers : pc[c] = "wait" =>
       seqPc \in {"handle", "reply"} /\ cur.from = c /\ cur.m = msg[c]
  /\ seqPc = "reply" => pc[cur.from] = "wait"

\* C9 witness: a request is in progress while another caller is blocked on
\* msgChan.
C9_Witness ==
  /\ seqPc = "handle"
  /\ \E c \in Callers : pc[c] = "wait"
  /\ \E c \in Callers : pc[c] = "send"

\* C10 as stated: every local write's version is greater than the version of
\* every earlier local write to the key (ReceiveRemotes in between or not),
\* and is 1 for a key with no prior value.
C10_AlwaysIncreasing ==
  \A k \in Keys :
    /\ \A e \in localVers[k].earlier, l \in localVers[k].last : l > e
    /\ (lastOp[k].kind \in {"set", "delete"} /\ lastOp[k].prev = NoValue)
         => data[k].Version = 1

\* C10 amended: a local write that follows a local write to the key with no
\* ReceiveRemote delta stored for the key in between has the version of that
\* write plus one, hence a greater one while that is below the largest int;
\* and the version is 1 for a key with no prior value.
C10_IncreasingBetweenReceives ==
  \A k \in Keys :
    /\ \A p \in localVers[k].prev, l \in localVers[k].last :
         p < IntMax => l = p + 1 /\ l > p
    /\ (lastOp[k].kind \in {"set", "delete"} /\ lastOp[k].prev = NoValue)
         => data[k].Version = 1

\* C10 witness: two local writes in a row after a stored remote delta.
C10_Witness ==
  \E k \in Keys : \E p \in localVers[k].prev :
    p > 1 /\ lastOp[k].kind \in {"set", "delete"}

\* C11: for every key the stored value is the conflict-resolution winner
\* (greatest modifiedAt, ties to the smaller modifiedBy) among the values
\* observed for it so far, local Set/Delete values and ReceiveRemote deltas
\* alike: no observed value beats the stored one.
C11_StoredIsWinner ==
  \A k \in Keys :
    best[k] # NoValue => (data[k] # NoValue /\ ~Beats(best[k], data[k]))

\* C12: when the handler runs ReceiveRemote for the delta that the previous
\* write handled for that key was also a ReceiveRemote of, every key's stored
\* value stays as the first application left it and no error is returned.
C12_ReceiveTwice ==
  [][(/\ seqPc = "handle" /\ seqPc' = "reply"
      /\ cur.m.msgType = "receive"
      /\ lastOp[cur.m.key].kind = "receive"
      /\ lastOp[cur.m.key].delta = cur.m.delta.Value)
       => (data' = data /\ reply'.Error = "nil")]_vars

\* The second application has run on a key where the first had stored the delta.
C12_Witness ==
  /\ seqPc = "reply" /\ cur.m.msgType = "receive"
  /\ lastOp[cur.m.key].again
  /\ lastOp[cur.m.key].prev = cur.m.delta.Value
  /\ data[cur.m.key] = cur.m.delta.Value

\* C13: when a Storage call fails while the handler runs Set or Delete, the
\* error is what the caller is sent, every key's stored value is as before,
\* a failed Storage.Get is not followed by a Storage.Set, and the loop goes
\* on to hand over the reply and to receive the next request.
C13_FailedWriteNoEffect ==
  /\ [][(/\ seqPc = "handle" /\ cur.m.msgType \in {"set", "delete"}
          /\ \E i \in DOMAIN calls' : ~calls'[i].ok)
           => (/\ reply'.Error = "err"
               /\ data' = data
               /\ seqPc' = "reply"
               /\ (~calls'[1].ok => \A i \in DOMAIN calls' : calls'[i].op # "Set"))]_vars
  /\ [][(seqPc = "reply" /\ reply.Error = "err" /\ seqPc' # seqPc)
           => (seqPc' = "recv" /\ pc'[cur.from] = "idle")]_vars
  /\ [](seqPc \in {"recv", "handle", "reply"})

\* A Get is being answered without error after the last Set or Delete of
\* some key failed and left the key as it was.
C13_Witness ==
  /\ IsGetReply /\ reply.Error = "nil"
  /\ \E k \in Keys :
       /\ lastOp[k].kind \in {"set", "delete"}
       /\ ~lastOp[k].stored
       /\ data[k] = lastOp[k].prev

\* C14: after the handler ran ReceiveRemote for a delta that loses conflict
\* resolution against the value stored for its key (the stored value has the
\* later modifiedAt, or the same modifiedAt and the smaller modifiedBy), no
\* error is returned, Storage.Set was not called and the key holds the value
\* it held before.
C14_LosingDeltaDiscarded ==
  (/\ seqPc = "reply" /\ cur.m.msgType = "receive"
   /\ lastOp[cur.m.key].prev # NoValue
   /\ Beats(lastOp[cur.m.key].prev, cur.m.delta.Value))
    => (/\ reply.Error = "nil"
        /\ \A i \in DOMAIN calls : calls[i].op # "Set"
        /\ data[cur.m.key] = lastOp[cur.m.key].prev)

\* C15: a ReceiveRemote handled for a key that held no value returns no
\* error and leaves the key holding the delta's value, field for field
\* (version, modifiedBy, modifiedAt, deleted flag and content as received).
C15_AbsentKeyTakesDelta ==
  /\ (seqPc = "reply" /\ cur.m.msgType = "receive"
        /\ lastOp[cur.m.key].prev = NoValue) => reply.Error = "nil"
  /\ \A k \in Keys :
       (lastOp[k].kind = "receive" /\ lastOp[k].prev = NoValue)
         => data[k] = lastOp[k].delta

\* A tombstone of another node with version 2 has been received for a key
\* that held nothing.
C15_Witness ==
  /\ seqPc = "reply" /\ cur.m.msgType = "receive"
  /\ lastOp[cur.m.key].prev = NoValue
  /\ cur.m.delta.Value.Deleted /\ cur.m.delta.Value.Version = 2
  /\ cur.m.delta.Value.ModifiedBy # nodeID
  /\ data[cur.m.key] = cur.m.delta.Value

VariantVersions == 1..2
StampVariants(v) ==
  {Value(ver, v.ModifiedBy, v.ModifiedAt, del, c) :
     ver \in VariantVersions, del \in BOOLEAN, c \in Contents \cup {NilBytes}}

\* Whether handleReceive calls Storage.Set for delta d on a key holding e.
SetCalled(cs) == \E i \in DOMAIN cs : cs[i].op = "Set"
WouldStore(k, e, d) ==
  SetCalled(handleReceive(StorageSet(EmptyStore, k, e), Delta(k, d), FALSE, FALSE).calls)

\* C18: whether a ReceiveRemote stored its delta is decided by the modifiedAt
\* and modifiedBy of the stored value and of the delta alone: an execution
\* in which either differs in version, deleted flag or content decides the
\* same way as the one that took place.
C18_DecidedByStampsOnly ==
  (/\ seqPc = "reply" /\ cur.m.msgType = "receive"
   /\ lastOp[cur.m.key].prev # NoValue)
    => \A e \in StampVariants(lastOp[cur.m.key].prev),
          d \in StampVariants(cur.m.delta.Value) :
         WouldStore(cur.m.key, e, d) = SetCalled(calls)

\* A ReceiveRemote has stored its delta over a value of equal modifiedAt that
\* differs from it in version, deleted flag and content.
C18_Witness ==
  /\ seqPc = "reply" /\ cur.m.msgType = "receive"
  /\ lastOp[cur.m.key].prev # NoValue
  /\ lastOp[cur.m.key].prev.ModifiedAt = cur.m.delta.Value.ModifiedAt
  /\ lastOp[cur.m.key].prev.Version > cur.m.delta.Value.Version
  /\ lastOp[cur.m.key].prev.Deleted /\ ~cur.m.delta.Value.Deleted
  /\ SetCalled(calls)

\* C19: a key that holds a value holds one after every step (a tombstone
\* counts): no handler removes a key, and no handler calls Storage.Delete.
C19_KeysNeverRemoved ==
  /\ [][\A k \in Keys : data[k] # NoValue => data'[k] # NoValue]_vars
  /\ [](\A i \in DOMAIN calls : calls[i].op # "Delete")

\* A Delete has been handled for a key that held a live value and one for
\* a key that held nothing: both keys hold tombstones.
C19_Witness ==
  \E k1 \in Keys, k2 \in Keys :
    /\ lastOp[k1].kind = "delete" /\ lastOp[k1].prev # NoValue
    /\ ~lastOp[k1].prev.Deleted /\ data[k1].Deleted
    /\ lastOp[k2].kind = "delete" /\ lastOp[k2].prev = NoValue
    /\ data[k2].Deleted

\* C20: with no Close issued, Storage calls that return and a fair scheduler,
\* every caller blocked submitting a request has it received and gets its
\* reply, however many callers wait at once; so no caller stays blocked for
\* ever together with the loop.
C20_EveryRequestAnswered ==
  \A c \in Callers : (pc[c] = "send") ~> (pc[c] = "idle")

\* One caller is blocked submitting while the loop is sending the reply that
\* another caller waits for.
C20_Witness ==
  \E c \in Callers, d \in Callers :
    /\ c # d /\ pc[c] = "send" /\ pc[d] = "wait"
    /\ seqPc = "reply" /\ cur.from = d /\ ~closeSeen

====
